---- MODULE Spec2Model ----
(***************************************************************************)
(* Movieverse backend (src/app.py): the Flask route handlers for           *)
(* registration, login, the OMDb proxy and the per-user favorites list,    *)
(* run by concurrent request workers over one shared database.             *)
(*                                                                         *)
(* A handler that reads the database and later commits is two steps (the   *)
(* query, then the commit), so that two workers can interleave between     *)
(* them.  models.py (User, Favorite) is not part of the sources; its       *)
(* password hashing and its storage-level uniqueness constraints are       *)
(* modelled from the specification (sections 3, 4.1, 4.3 and 5).           *)
(***************************************************************************)
EXTENDS Integers, FiniteSets, Sequences, TLC

\* ------------------------------------------------------------ input domains
Workers == {"w1", "w2"}
Usernames == {"alice", "bob"}
Emails == {"a@x.io", "b@x.io"}
Passwords == {"pw1", "pw2"}
Movies == {"tt01", "tt02"}
Titles == {"Batman"}
Posters == {"http://p/1.jpg"}
\* The query argument; "" stands for an empty and for a missing one.
Queries == {"", "batman", "zzzz"}
ImdbIds == {"tt01", "tt99"}

\* Highest Favorite primary key the model hands out.
MaxFavId == 2

\* A JSON body that parses to null, and a request that carries no JSON body.
NullBody == [json |-> "null"]
AbsentBody == [json |-> "absent"]
\* Python's None, as the result of get_json() and of dict.get().
None == [py |-> "None"]

VARIABLES
    users,      \* table User: set of rows [id, username, email, password_hash]
    favorites,  \* table Favorite: set of rows [id, user_id, movie_id, title, poster_url]
    nextUserId, \* next primary key of User
    nextFavId,  \* next primary key of Favorite
    tokens,     \* user ids for which create_access_token has issued a token
    pc,         \* per worker: where its handler stands
    req,        \* per worker: the request its handler is working on
    last,       \* the last response sent: [route, req, status, body]
    created     \* per username: how many register requests were answered 201

vars == <<users, favorites, nextUserId, nextFavId, tokens, pc, req, last, created>>

NoReq == [none |-> TRUE]
NoResponse == [route |-> "none"]

\* ------------------------------------------------------------ JSON bodies
\* All JSON objects that hold every field f of Vals with a value of Vals[f].
Complete(Vals) ==
    { d \in [DOMAIN Vals -> UNION { Vals[f] : f \in DOMAIN Vals }] :
        \A f \in DOMAIN Vals : d[f] \in Vals[f] }

\* The object d with some of its fields left out, for every proper subset.
Incomplete(d) == { [f \in S |-> d[f]] : S \in (SUBSET DOMAIN d) \ {DOMAIN d} }

RegisterFields == {"username", "email", "password"}
RegisterVals == [username |-> Usernames, email |-> Emails, password |-> Passwords]
RegisterBodies ==
    {NullBody, AbsentBody}
    \cup Complete(RegisterVals)
    \cup Incomplete([username |-> "alice", email |-> "a@x.io", password |-> "pw1"])

LoginFields == {"username", "password"}
LoginVals == [username |-> Usernames, password |-> Passwords]
LoginBodies ==
    {NullBody, AbsentBody}
    \cup Complete(LoginVals)
    \cup Incomplete([username |-> "alice", password |-> "pw1"])

\* ------------------------------------------------------------ exceptions
\* str(e) of the exceptions the handlers can catch.
TypeErrorText == "exc: argument of type 'NoneType' is not iterable"
UnsupportedMediaText == "exc: 415 Unsupported Media Type: Did not attempt to load JSON data"
IntegrityErrorText == "exc: (IntegrityError) UNIQUE constraint failed"
ExceptionTexts == {TypeErrorText, UnsupportedMediaText, IntegrityErrorText}

\* request.get_json(): the parsed body.  A request without a JSON body gives
\* None or raises UnsupportedMediaType, depending on the Flask release.
get_json(body) ==
    IF body = AbsentBody
    THEN {[raised |-> TRUE, text |-> UnsupportedMediaText], [raised |-> FALSE, data |-> None]}
    ELSE IF body = NullBody
    THEN {[raised |-> FALSE, data |-> None]}
    ELSE {[raised |-> FALSE, data |-> body]}

Response(route, r, status, body) ==
    [route |-> route, req |-> r, status |-> status, body |-> body]

ErrorBody(msg) == [error |-> msg]
MessageBody(msg) == [message |-> msg]

\* The handlers' "except Exception as e" clause: 500 carrying str(e).
InternalError(route, r, text) == Response(route, r, 500, ErrorBody(text))

\* ------------------------------------------------------------ models.py
\* User.set_password: a salted one-way hash, kept symbolic.
set_password(salt, password) == [salt |-> salt, digest |-> <<salt, password>>]

\* User.check_password: re-hash with the stored salt and compare.
check_password(user, password) ==
    user.password_hash = set_password(user.password_hash.salt, password)

\* The storage-level uniqueness constraint on User.username.
UserUnique(table, row) == \A u \in table : u.username # row.username

\* Mutant: the Favorite table carries no uniqueness constraint.
FavoriteUnconstrained(table, row) == TRUE

\* The storage-level uniqueness constraint on Favorite (user_id, movie_id).
FavoriteUnique(table, row) ==
    \A f \in table : ~(f.user_id = row.user_id /\ f.movie_id = row.movie_id)

\* ------------------------------------------------------------ register
\* all(field in data for field in required_fields)
register_has_fields(data) == RegisterFields \subseteq DOMAIN data

\* Mutant: the existence check filters on the email column.
user_by_email(username) == { u \in users : u.email = username }

\* User.query.filter_by(username=...).first()
user_by_username(username) == { u \in users : u.username = username }

\* Lines 35-42: parse, validate, existence check.
register(w, body) ==
    /\ pc[w] = "idle"
    /\ \E j \in get_json(body) :
        IF j.raised
        THEN /\ last' = InternalError("register", body, j.text)
             /\ UNCHANGED <<pc, req>>
        ELSE IF j.data = None
        THEN \* "field in None" raises TypeError
             /\ last' = InternalError("register", body, TypeErrorText)
             /\ UNCHANGED <<pc, req>>
        ELSE IF ~register_has_fields(j.data)
        THEN /\ last' = Response("register", body, 400, ErrorBody("Missing required fields"))
             /\ UNCHANGED <<pc, req>>
        ELSE IF user_by_username(j.data.username) # {}
        THEN /\ last' = Response("register", body, 400, ErrorBody("Username already exists"))
             /\ UNCHANGED <<pc, req>>
        ELSE /\ pc' = [pc EXCEPT ![w] = "register_commit"]
             /\ req' = [req EXCEPT ![w] = j.data]
             /\ UNCHANGED last
    /\ UNCHANGED <<users, favorites, nextUserId, nextFavId, tokens, created>>

\* Mutant: a commit that raised is still answered 201.
register_commit_status_always_201(committed) == IF committed THEN 201 ELSE 201

\* The status register answers once the commit went through or raised.
register_commit_status(committed) == IF committed THEN 201 ELSE 500

\* Lines 44-52: build the row, add, commit; an exception rolls back.
register_commit(w) ==
    /\ pc[w] = "register_commit"
    /\ LET data == req[w]
           row == [id |-> nextUserId, username |-> data.username, email |-> data.email,
                   password_hash |-> set_password(nextUserId, data.password)]
           committed == UserUnique(users, row)
           status == register_commit_status(committed)
       IN /\ users' = IF committed THEN users \cup {row} ELSE users
          /\ nextUserId' = IF committed THEN nextUserId + 1 ELSE nextUserId
          /\ last' = Response("register", data, status,
                              IF status = 201 THEN MessageBody("User registered successfully")
                              ELSE ErrorBody(IntegrityErrorText))
          /\ created' = IF status = 201
                        THEN [created EXCEPT ![data.username] = @ + 1]
                        ELSE created
    /\ pc' = [pc EXCEPT ![w] = "idle"]
    /\ req' = [req EXCEPT ![w] = NoReq]
    /\ UNCHANGED <<favorites, nextFavId, tokens>>

\* ------------------------------------------------------------ login
\* not data or 'username' not in data or 'password' not in data
login_missing(data) ==
    \/ data = None
    \/ DOMAIN data = {}
    \/ ~(LoginFields \subseteq DOMAIN data)

\* user and user.check_password(data['password'])
login_ok(found, password) == found # {} /\ \A u \in found : check_password(u, password)

\* Mutant: an unknown username gets an answer of its own.
login_rejection_telling(found) ==
    IF found = {}
    THEN [status |-> 404, body |-> ErrorBody("User not found")]
    ELSE [status |-> 401, body |-> ErrorBody("Invalid credentials")]

\* Line 69: the answer to a login that did not pass, whichever check failed.
login_rejection(found) == [status |-> 401, body |-> ErrorBody("Invalid credentials")]

\* Lines 56-71.
login(w, body) ==
    /\ pc[w] = "idle"
    /\ \E j \in get_json(body) :
        IF j.raised
        THEN /\ last' = InternalError("login", body, j.text)
             /\ UNCHANGED tokens
        ELSE IF login_missing(j.data)
        THEN /\ last' = Response("login", body, 400, ErrorBody("Missing username or password"))
             /\ UNCHANGED tokens
        ELSE LET found == user_by_username(j.data.username) IN
             IF login_ok(found, j.data.password)
             THEN \E user \in found :
                    /\ tokens' = tokens \cup {user.id}
                    /\ last' = Response("login", body, 200,
                                        [token |-> [kind |-> "valid", sub |-> user.id],
                                         user_id |-> user.id, username |-> user.username])
             ELSE /\ last' = Response("login", body, login_rejection(found).status,
                                       login_rejection(found).body)
                  /\ UNCHANGED tokens
    /\ UNCHANGED <<users, favorites, nextUserId, nextFavId, pc, req, created>>


\* ------------------------------------------------------------ session tokens
\* The tokens a client can present: none, garbage, a token signed with another
\* key (naming any user), and issued tokens, either expired or still valid.
UserIds == 1..Cardinality(Usernames)
RequestTokens ==
    {[kind |-> "missing", sub |-> 0], [kind |-> "malformed", sub |-> 0]}
    \cup {[kind |-> "badsig", sub |-> s] : s \in UserIds}
    \cup {[kind |-> k, sub |-> s] : k \in {"valid", "expired"}, s \in tokens}

\* The record of a request on a protected route: the token's kind, the identity
\* it names, and the movie and title ("-" for none) and the favorite id (0 for
\* none) it is about.
Request(token, movie_id, title, fav_id) ==
    [kind |-> token.kind, sub |-> token.sub, movie_id |-> movie_id, title |-> title,
     fav_id |-> fav_id]
\* A request that was stopped before the handler body reads anything of it.
Rejected(token) ==
    [kind |-> token.kind, sub |-> 0, movie_id |-> "-", title |-> "-", fav_id |-> 0]

\* @jwt_required() under JWTManager(app) with no loader overridden: the
\* extension's default callbacks answer a missing token and an expired token
\* with 401, and a token that fails to decode or to verify with 422.
jwt_required(token) ==
    CASE token.kind = "valid" -> [ok |-> TRUE, identity |-> token.sub]
      [] token.kind = "missing" ->
            [ok |-> FALSE, status |-> 401, body |-> [msg |-> "Missing Authorization Header"]]
      [] token.kind = "expired" ->
            [ok |-> FALSE, status |-> 401, body |-> [msg |-> "Token has expired"]]
      [] token.kind = "malformed" ->
            [ok |-> FALSE, status |-> 422, body |-> [msg |-> "Not enough segments"]]
      [] token.kind = "badsig" ->
            [ok |-> FALSE, status |-> 422, body |-> [msg |-> "Signature verification failed"]]

\* ------------------------------------------------------------ favorites
\* poster_url is optional: every complete body also comes without it.
FavoriteVals == [movie_id |-> Movies, title |-> Titles, poster_url |-> Posters]
FavoriteBodies ==
    {NullBody, AbsentBody}
    \cup Complete(FavoriteVals)
    \cup Incomplete([movie_id |-> "tt01", title |-> "Batman", poster_url |-> "http://p/1.jpg"])
    \cup { [f \in {"movie_id", "title"} |-> d[f]] : d \in Complete(FavoriteVals) }
FavIds == 1..MaxFavId

\* Favorite.query.filter_by(user_id=user_id).all(), as the JSON list.
favorites_of(user_id) ==
    { [id |-> f.id, movie_id |-> f.movie_id, title |-> f.title, poster_url |-> f.poster_url]
      : f \in { g \in favorites : g.user_id = user_id } }

\* Lines 109-122.
get_favorites(w, token) ==
    /\ pc[w] = "idle"
    /\ LET auth == jwt_required(token)
           r == Request(token, "-", "-", 0)
       IN IF ~auth.ok
          THEN last' = Response("get_favorites", Rejected(token), auth.status, auth.body)
          ELSE last' = Response("get_favorites", r, 200,
                                [favorites |-> favorites_of(auth.identity)])
    /\ UNCHANGED <<users, favorites, nextUserId, nextFavId, tokens, pc, req, created>>

\* The movie a request body names, for the record of the response.
movie_of(body) == IF "movie_id" \in DOMAIN body THEN body.movie_id ELSE "-"
title_of(body) == IF "title" \in DOMAIN body THEN body.title ELSE "-"

\* not data or 'movie_id' not in data or 'title' not in data
add_favorite_missing(data) ==
    \/ data = None
    \/ DOMAIN data = {}
    \/ ~({"movie_id", "title"} \subseteq DOMAIN data)

\* Mutant: the existence check filters on the id column, not on user_id.
favorite_existing_by_id(movie_id, user_id) ==
    { f \in favorites : f.movie_id = movie_id /\ f.id = user_id }

\* Favorite.query.filter_by(movie_id=..., user_id=user_id).first()
favorite_existing(movie_id, user_id) ==
    { f \in favorites : f.movie_id = movie_id /\ f.user_id = user_id }

\* Inserts the handlers have not committed yet.  A new insert is taken on only
\* while a primary key up to MaxFavId is left for it.
PendingInserts == Cardinality({ w \in Workers : pc[w] = "add_favorite_commit" })

\* Lines 124-139: authenticate, parse, validate, existence check.
add_favorite(w, token, body) ==
    /\ pc[w] = "idle"
    /\ LET auth == jwt_required(token)
           r == Request(token, movie_of(body), title_of(body), 0)
       IN IF ~auth.ok
          THEN /\ last' = Response("add_favorite", Rejected(token), auth.status, auth.body)
               /\ UNCHANGED <<pc, req>>
          ELSE \E j \in get_json(body) :
            IF j.raised
            THEN /\ last' = InternalError("add_favorite", r, j.text)
                 /\ UNCHANGED <<pc, req>>
            ELSE IF add_favorite_missing(j.data)
            THEN /\ last' = Response("add_favorite", r, 400,
                                     ErrorBody("Missing required fields"))
                 /\ UNCHANGED <<pc, req>>
            ELSE IF favorite_existing(j.data.movie_id, auth.identity) # {}
            THEN /\ last' = Response("add_favorite", r, 409,
                                     ErrorBody("Movie already in favorites"))
                 /\ UNCHANGED <<pc, req>>
            ELSE /\ nextFavId + PendingInserts <= MaxFavId
                 /\ pc' = [pc EXCEPT ![w] = "add_favorite_commit"]
                 /\ req' = [req EXCEPT ![w] = [token |-> token, body |-> j.data]]
                 /\ UNCHANGED last
    /\ UNCHANGED <<users, favorites, nextUserId, nextFavId, tokens, created>>

\* data.get('poster_url')
poster_of(data) == IF "poster_url" \in DOMAIN data THEN data.poster_url ELSE "None"

\* Lines 141-152: build the row, add, commit; an exception rolls back.
add_favorite_commit(w) ==
    /\ pc[w] = "add_favorite_commit"
    /\ LET data == req[w].body
           r == Request(req[w].token, movie_of(data), title_of(data), 0)
           row == [id |-> nextFavId, user_id |-> req[w].token.sub, movie_id |-> data.movie_id,
                   title |-> data.title, poster_url |-> poster_of(data)]
       IN IF FavoriteUnique(favorites, row)
          THEN /\ favorites' = favorites \cup {row}
               /\ nextFavId' = nextFavId + 1
               /\ last' = Response("add_favorite", r, 201, MessageBody("Favorite added"))
          ELSE /\ last' = InternalError("add_favorite", r, IntegrityErrorText)
               /\ UNCHANGED <<favorites, nextFavId>>
    /\ pc' = [pc EXCEPT ![w] = "idle"]
    /\ req' = [req EXCEPT ![w] = NoReq]
    /\ UNCHANGED <<users, nextUserId, tokens, created>>

\* Mutant: the lookup does not filter on the owner.
favorite_of_anyone(fav_id, user_id) == { f \in favorites : f.id = fav_id }

\* Favorite.query.filter_by(id=fav_id, user_id=user_id).first()
favorite_owned(fav_id, user_id) ==
    { f \in favorites : f.id = fav_id /\ f.user_id = user_id }

\* Lines 154-161: authenticate, look the row up by id and owner.
delete_favorite(w, token, fav_id) ==
    /\ pc[w] = "idle"
    /\ LET auth == jwt_required(token)
           r == Request(token, "-", "-", fav_id)
       IN IF ~auth.ok
          THEN /\ last' = Response("delete_favorite", Rejected(token), auth.status, auth.body)
               /\ UNCHANGED <<pc, req>>
          ELSE IF favorite_owned(fav_id, auth.identity) = {}
          THEN /\ last' = Response("delete_favorite", r, 404, ErrorBody("Favorite not found"))
               /\ UNCHANGED <<pc, req>>
          ELSE /\ pc' = [pc EXCEPT ![w] = "delete_favorite_commit"]
               /\ req' = [req EXCEPT ![w] = r]
               /\ UNCHANGED last
    /\ UNCHANGED <<users, favorites, nextUserId, nextFavId, tokens, created>>

\* Lines 162-164: delete the loaded row and commit.  A row another request
\* deleted in between matches nothing; the commit still goes through.
delete_favorite_commit(w) ==
    /\ pc[w] = "delete_favorite_commit"
    /\ favorites' = { f \in favorites : f.id # req[w].fav_id }
    /\ last' = Response("delete_favorite", req[w], 200, MessageBody("Favorite deleted"))
    /\ pc' = [pc EXCEPT ![w] = "idle"]
    /\ req' = [req EXCEPT ![w] = NoReq]
    /\ UNCHANGED <<users, nextUserId, nextFavId, tokens, created>>


\* ------------------------------------------------------------ OMDb proxy
\* What requests.get(url, timeout=10) followed by response.json() can give:
\* a RequestException (connection error, timeout), or the catalog's JSON
\* document, whose fields Response, Error and Search may each be missing.
SearchLists ==
    { <<>>,
      <<[Title |-> "Batman", imdbID |-> "tt01"]>>,
      <<[Title |-> "Batman", imdbID |-> "tt01"], [Title |-> "Batman Returns", imdbID |-> "tt02"]>> }
CatalogErrors == {"Movie not found!", "Too many results."}
\* A field that may be missing: no value, or one value of V.
Optional(V) == {{}} \cup {{v} : v \in V}
CatalogDocs ==
    { [f \in {g \in {"Response", "Error", "Search"} : c[g] # {}} |-> CHOOSE v \in c[f] : TRUE]
      : c \in [Response : Optional({"True", "False"}), Error : Optional(CatalogErrors),
               Search : Optional(SearchLists)] }
TransportErrors == {"ConnectionError", "Timeout"}
CatalogReplies ==
    {[raised |-> TRUE, exc |-> e] : e \in TransportErrors}
    \cup {[raised |-> FALSE, data |-> d] : d \in CatalogDocs}

\* Lines 29-31.
home(w) ==
    /\ pc[w] = "idle"
    /\ last' = Response("home", NoReq, 200,
                        [status |-> "running", message |-> "Welcome to Movieverse API"])
    /\ UNCHANGED <<users, favorites, nextUserId, nextFavId, tokens, pc, req, created>>

\* Mutant: everything but Response "True" counts as not found.
catalog_says_not_true(data) == ~("Response" \in DOMAIN data /\ data.Response = "True")

\* data.get('Response') == 'False'
catalog_says_false(data) == "Response" \in DOMAIN data /\ data.Response = "False"

\* data.get('Error', default)
catalog_error(data, default) == IF "Error" \in DOMAIN data THEN data.Error ELSE default

\* data.get('Search', [])
catalog_search(data) == IF "Search" \in DOMAIN data THEN data.Search ELSE <<>>

\* Lines 75-81: an empty or missing query is refused, otherwise the outbound
\* call is made.
search_movies(w, query) ==
    /\ pc[w] = "idle"
    /\ IF query = ""
       THEN /\ last' = Response("search_movies", [query |-> query], 400,
                                ErrorBody("Missing search query"))
            /\ UNCHANGED <<pc, req>>
       ELSE /\ pc' = [pc EXCEPT ![w] = "search_movies_call"]
            /\ req' = [req EXCEPT ![w] = [query |-> query]]
            /\ UNCHANGED last
    /\ UNCHANGED <<users, favorites, nextUserId, nextFavId, tokens, created>>

\* Lines 81-89: the outbound call returns or raises.
search_movies_reply(w, reply) ==
    /\ pc[w] = "search_movies_call"
    /\ LET r == [query |-> req[w].query, reply |-> reply] IN
       IF reply.raised
       THEN last' = Response("search_movies", r, 502, ErrorBody("Failed to connect to OMDB API"))
       ELSE IF catalog_says_false(reply.data)
       THEN last' = Response("search_movies", r, 404,
                             ErrorBody(catalog_error(reply.data, "No results found")))
       ELSE last' = Response("search_movies", r, 200, [results |-> catalog_search(reply.data)])
    /\ pc' = [pc EXCEPT ![w] = "idle"]
    /\ req' = [req EXCEPT ![w] = NoReq]
    /\ UNCHANGED <<users, favorites, nextUserId, nextFavId, tokens, created>>

\* Lines 95-97: the outbound call is made for any id.
get_movie_details(w, imdb_id) ==
    /\ pc[w] = "idle"
    /\ pc' = [pc EXCEPT ![w] = "get_movie_details_call"]
    /\ req' = [req EXCEPT ![w] = [imdb_id |-> imdb_id]]
    /\ UNCHANGED <<users, favorites, nextUserId, nextFavId, tokens, last, created>>

\* Lines 97-105: the outbound call returns or raises.
get_movie_details_reply(w, reply) ==
    /\ pc[w] = "get_movie_details_call"
    /\ LET r == [imdb_id |-> req[w].imdb_id, reply |-> reply] IN
       IF reply.raised
       THEN last' = Response("get_movie_details", r, 502,
                             ErrorBody("Failed to connect to OMDB API"))
       ELSE IF catalog_says_false(reply.data)
       THEN last' = Response("get_movie_details", r, 404,
                             ErrorBody(catalog_error(reply.data, "Movie not found")))
       ELSE last' = Response("get_movie_details", r, 200, [detail |-> reply.data])
    /\ pc' = [pc EXCEPT ![w] = "idle"]
    /\ req' = [req EXCEPT ![w] = NoReq]
    /\ UNCHANGED <<users, favorites, nextUserId, nextFavId, tokens, created>>

\* ------------------------------------------------------------ specifications
Idle == [w \in Workers |-> "idle"]
NoReqs == [w \in Workers |-> NoReq]

Init ==
    /\ users = {}
    /\ favorites = {}
    /\ nextUserId = 1
    /\ nextFavId = 1
    /\ tokens = {}
    /\ pc = Idle
    /\ req = NoReqs
    /\ last = NoResponse
    /\ created = [u \in Usernames |-> 0]

Next ==
    \/ \E w \in Workers, body \in RegisterBodies : register(w, body)
    \/ \E w \in Workers : register_commit(w)
    \/ \E w \in Workers, body \in LoginBodies : login(w, body)

\* Registration and login, from the empty database.
Spec == Init /\ [][Next]_vars

\* The rows register leaves for alice and bob, both logged in.
RegisteredUser(id, username, email, password) ==
    [id |-> id, username |-> username, email |-> email,
     password_hash |-> set_password(id, password)]

InitFav ==
    /\ users = {RegisteredUser(1, "alice", "a@x.io", "pw1"),
                RegisteredUser(2, "bob", "b@x.io", "pw2")}
    /\ favorites = {}
    /\ nextUserId = 3
    /\ nextFavId = 1
    /\ tokens = {1, 2}
    /\ pc = Idle
    /\ req = NoReqs
    /\ last = NoResponse
    /\ created = [u \in Usernames |-> 1]

NextFav ==
    \/ \E w \in Workers, token \in RequestTokens : get_favorites(w, token)
    \/ \E w \in Workers, token \in RequestTokens, body \in FavoriteBodies :
            add_favorite(w, token, body)
    \/ \E w \in Workers : add_favorite_commit(w)
    \/ \E w \in Workers, token \in RequestTokens, fav_id \in FavIds :
            delete_favorite(w, token, fav_id)
    \/ \E w \in Workers : delete_favorite_commit(w)

\* The favorites routes, from a database with two registered users.
SpecFav == InitFav /\ [][NextFav]_vars

NextMovies ==
    \/ \E w \in Workers : home(w)
    \/ \E w \in Workers, query \in Queries : search_movies(w, query)
    \/ \E w \in Workers, reply \in CatalogReplies : search_movies_reply(w, reply)
    \/ \E w \in Workers, imdb_id \in ImdbIds : get_movie_details(w, imdb_id)
    \/ \E w \in Workers, reply \in CatalogReplies : get_movie_details_reply(w, reply)

\* The unauthenticated routes that touch no table.
SpecMovies == Init /\ [][NextMovies]_vars

\* ------------------------------------------------------------ properties
\* C1: two register requests for one free username, interleaved in any order:
\* at most one row ever holds the username, at most one request is answered
\* 201, a row exists exactly when one was, and a request that carried all
\* fields and was not answered 201 was rejected (400 or 500) while another
\* request's row holds the username.
C1_ConcurrentRegister ==
    /\ \A u \in Usernames :
        /\ Cardinality({ r \in users : r.username = u }) <= 1
        /\ created[u] <= 1
        /\ (created[u] = 1) <=> (\E r \in users : r.username = u)
    /\ (last.route = "register" /\ RegisterFields \subseteq DOMAIN last.req) =>
        /\ last.status \in {201, 400, 500}
        /\ \E r \in users : r.username = last.req.username

\* The race itself: the second commit was refused by the storage constraint.
C1_Witness ==
    /\ last.route = "register"
    /\ last.status = 500
    /\ RegisterFields \subseteq DOMAIN last.req
    /\ created[last.req.username] = 1

\* C3: once a username is registered its row stays, and a later register naming
\* it (any email, any password) is answered 400 "Username already exists" with
\* the user table unchanged, holding exactly one row of that username; no such
\* request gets past the existence check.
C3_DuplicateRegister ==
    /\ [][\A u \in Usernames :
            created'[u] >= 1 => Cardinality({ r \in users' : r.username = u }) = 1]_vars
    /\ [][users \subseteq users']_vars
    /\ [][( /\ pc' = pc
            /\ last'.route = "register"
            /\ RegisterFields \subseteq DOMAIN last'.req
            /\ \E r \in users : r.username = last'.req.username )
          => /\ last'.status = 400
             /\ last'.body = [error |-> "Username already exists"]
             /\ users' = users]_vars
    /\ [][\A w \in Workers :
            (pc[w] = "idle" /\ pc'[w] = "register_commit")
                => ~\E r \in users : r.username = req'[w].username]_vars

C3_Witness ==
    /\ last.route = "register"
    /\ last.status = 400
    /\ last.body = [error |-> "Username already exists"]
    /\ created[last.req.username] = 1
    /\ Cardinality({ r \in users : r.username = last.req.username }) = 1

\* C8: a login carrying username and password that fails because the username
\* is unknown, or because the password does not match, gets one and the same
\* answer, 401 {"error": "Invalid credentials"}, and no token is issued.
C8_LoginFailuresAlike ==
    [][( /\ pc' = pc
         /\ last'.route = "login"
         /\ LoginFields \subseteq DOMAIN last'.req
         /\ \/ \A u \in users : u.username # last'.req.username
            \/ \E u \in users : u.username = last'.req.username
                                /\ ~check_password(u, last'.req.password) )
       => /\ last'.status = 401
          /\ last'.body = [error |-> "Invalid credentials"]
          /\ "token" \notin DOMAIN last'.body
          /\ tokens' = tokens]_vars

\* A wrong password for an existing user was answered.
C8_Witness ==
    /\ last.route = "login"
    /\ last.status = 401
    /\ LoginFields \subseteq DOMAIN last.req
    /\ \E u \in users : u.username = last.req.username /\ ~check_password(u, last.req.password)

\* C9: a register request whose body lacks one of username, email, password
\* (a null or absent body included) is answered 400.
C9_MissingFieldIs400 ==
    (last.route = "register" /\ ~(RegisterFields \subseteq DOMAIN last.req))
        => last.status = 400

\* C10: the error message of a response is never the text of an exception.
C10_NoExceptionText ==
    (last.route # "none" /\ "error" \in DOMAIN last.body)
        => last.body.error \notin ExceptionTexts

\* C2: no two Favorite rows share (user_id, movie_id).
C2_FavoritePairUnique ==
    \A f \in favorites, g \in favorites :
        (f.user_id = g.user_id /\ f.movie_id = g.movie_id) => f = g

\* Two concurrent adds of one (user, movie): the second commit was refused.
C2_Witness ==
    /\ last.route = "add_favorite"
    /\ last.status = 500
    /\ last.body = [error |-> IntegrityErrorText]
    /\ \E f \in favorites : f.user_id = last.req.sub /\ f.movie_id = last.req.movie_id

\* C4: add-favorite by an authenticated user for a movie that user already has
\* (any title, any poster_url) is answered 409 and changes no row, so exactly
\* one matching row remains; no such request gets past the existence check.
C4_DuplicateFavorite ==
    /\ [][( /\ pc' = pc
            /\ last'.route = "add_favorite"
            /\ last'.req.kind = "valid"
            /\ last'.req.movie_id # "-"
            /\ last'.req.title # "-"
            /\ \E f \in favorites :
                    f.user_id = last'.req.sub /\ f.movie_id = last'.req.movie_id )
          => /\ last'.status = 409
             /\ last'.body = [error |-> "Movie already in favorites"]
             /\ favorites' = favorites
             /\ Cardinality({ f \in favorites' :
                    f.user_id = last'.req.sub /\ f.movie_id = last'.req.movie_id }) = 1]_vars
    /\ [][\A w \in Workers :
            (pc[w] = "idle" /\ pc'[w] = "add_favorite_commit")
                => ~\E f \in favorites : /\ f.user_id = req'[w].token.sub
                                         /\ f.movie_id = req'[w].body.movie_id]_vars

C4_Witness ==
    /\ last.route = "add_favorite"
    /\ last.status = 409
    /\ Cardinality({ f \in favorites :
                     f.user_id = last.req.sub /\ f.movie_id = last.req.movie_id }) = 1

\* C5: delete-favorite by an authenticated user for an id that user owns no
\* favorite of is answered 404 and changes no row, and never gets past the
\* lookup; a row only ever leaves the table through a delete its owner asked
\* for; and a committed delete leaves no row of that id, so that a repeated
\* delete finds nothing.
C5_DeleteOnlyOwn ==
    /\ [][( /\ pc' = pc
            /\ last'.route = "delete_favorite"
            /\ last'.req.kind = "valid"
            /\ ~\E f \in favorites : f.id = last'.req.fav_id /\ f.user_id = last'.req.sub )
          => /\ last'.status = 404
             /\ last'.body = [error |-> "Favorite not found"]
             /\ favorites' = favorites]_vars
    /\ [][\A w \in Workers :
            (pc[w] = "idle" /\ pc'[w] = "delete_favorite_commit")
                => \E f \in favorites : f.id = req'[w].fav_id /\ f.user_id = req'[w].sub]_vars
    /\ [][\A f \in favorites :
            f \notin favorites' =>
                \E w \in Workers : /\ pc[w] = "delete_favorite_commit"
                                   /\ pc'[w] = "idle"
                                   /\ req[w].sub = f.user_id
                                   /\ req[w].fav_id = f.id]_vars
    /\ [][\A w \in Workers :
            (pc[w] = "delete_favorite_commit" /\ pc'[w] = "idle")
                => ~\E f \in favorites' : f.id = req[w].fav_id]_vars

\* Another user's favorite was asked for, answered 404, and is still there.
C5_Witness ==
    /\ last.route = "delete_favorite"
    /\ last.status = 404
    /\ \E f \in favorites : f.id = last.req.fav_id /\ f.user_id # last.req.sub

\* C6: a request on a protected route whose token is missing, malformed,
\* expired or wrongly signed is answered 401 and returns no favorite data.
C6_BadTokenIs401 ==
    (last.route \in {"get_favorites", "add_favorite", "delete_favorite"}
     /\ last.req.kind # "valid")
        => (last.status = 401 /\ "favorites" \notin DOMAIN last.body)

====
